---- MODULE Spec2Model ----
(***************************************************************************)
(* Terminal screen model of src/src/screen.rs: the cell grid, scrollback,  *)
(* viewport, cursor and style of ScreenModel, the vte::Perform callbacks   *)
(* (print, execute, csi_dispatch) that mutate it, the viewport operations, *)
(* the paint cycle (update_display) with the rows it draws on the panel,   *)
(* the Screen with its escape-sequence parser (parse_bytes), and the       *)
(* painter and producer tasks that share the Screen behind the SCREEN      *)
(* mutex.                                                                  *)
(*                                                                         *)
(* Columns and rows are 0-based in the code; TLA+ sequences are 1-based,   *)
(* so cell (x, y) of the code is lines[y + 1].chars[x + 1] here.           *)
(***************************************************************************)
EXTENDS Integers, Sequences, FiniteSets

\* ---------------------------------------------------------------- bounds
\* The grid of the device is 45 x 24 with 200 scrollback rows; the model
\* keeps the same code on a small grid.
Cols == 3
Rows == 2
MaxScrollback == 2
\* Number of operations applied since construction.
MaxSteps == 5

\* ---------------------------------------------------------------- values
\* Color::DefaultFg, Color::DefaultBg, Color::Indexed(n)
DefaultFg == <<"DefaultFg", 0>>
DefaultBg == <<"DefaultBg", 0>>
Indexed(n) == <<"Indexed", n>>

\* The sequence f[1], ..., f[n] (a Vec of n elements).
RECURSIVE VecOf(_, _)
VecOf(f, n) == IF n = 0 THEN <<>> ELSE Append(VecOf(f, n - 1), f[n])

Attrs_default ==
  [fg |-> DefaultFg, bg |-> DefaultBg, bold |-> FALSE,
   underline |-> FALSE, reverse |-> FALSE]

ScreenLine_new(width) ==
  [chars |-> VecOf([i \in 1..width |-> " "], width),
   attrs |-> VecOf([i \in 1..width |-> Attrs_default], width),
   dirty |-> TRUE]

ScreenLine_clear(line) ==
  [chars |-> VecOf([i \in 1..Len(line.chars) |-> " "], Len(line.chars)),
   attrs |-> VecOf([i \in 1..Len(line.attrs) |-> Attrs_default], Len(line.attrs)),
   dirty |-> TRUE]

\* Why an operation aborted: Rust panics on an out-of-range index and on
\* unwrap() of an Err.
NoPanic == "none"
IndexPanic == "index out of bounds"
UnwrapPanic == "unwrap on Err"
OverflowPanic == "attempt to add with overflow"

ScreenModel_default ==
  [lines |-> VecOf([y \in 1..Rows |-> ScreenLine_new(Cols)], Rows),
   scrollback |-> <<>>,
   viewport_offset |-> 0,
   cursor_x |-> 0,
   cursor_y |-> 0,
   current_attrs |-> Attrs_default,
   full_repaint |-> TRUE,
   panic |-> NoPanic]

Min(a, b) == IF a < b THEN a ELSE b
Max(a, b) == IF a > b THEN a ELSE b
\* usize::saturating_sub
SaturatingSub(a, b) == IF a > b THEN a - b ELSE 0

\* The largest usize of the model, 2^31 - 1 (2^32 - 1 on the device).
UsizeMax == 2147483647

\* ------------------------------------------------------------ ScreenModel
clear(m) ==
  [m EXCEPT !.lines = VecOf([y \in 1..Len(m.lines) |-> ScreenLine_clear(m.lines[y])],
                            Len(m.lines)),
            !.cursor_x = 0,
            !.cursor_y = 0,
            !.full_repaint = TRUE]

\* Faulty variants of scroll_up: one never drops a row of a full scrollback,
\* one keeps the oldest rows of a full scrollback and drops the row pushed.
scroll_up_unbounded(m) ==
  IF m.lines # <<>>
  THEN [m EXCEPT !.lines = Append(Tail(m.lines), ScreenLine_new(Cols)),
                 !.scrollback = Append(m.scrollback, Head(m.lines)),
                 !.full_repaint = TRUE]
  ELSE m

scroll_up_drops_newest(m) ==
  IF m.lines # <<>>
  THEN LET pushed == Append(m.scrollback, Head(m.lines))
           kept == IF Len(pushed) > MaxScrollback
                   THEN SubSeq(pushed, 1, MaxScrollback)
                   ELSE pushed
       IN [m EXCEPT !.lines = Append(Tail(m.lines), ScreenLine_new(Cols)),
                    !.scrollback = kept,
                    !.full_repaint = TRUE]
  ELSE m

\* Faulty variant: the rows move up without a request for a full repaint.
scroll_up_without_repaint(m) ==
  IF m.lines # <<>>
  THEN LET line == Head(m.lines)
           pushed == Append(m.scrollback, line)
           kept == IF Len(pushed) > MaxScrollback THEN Tail(pushed) ELSE pushed
       IN [m EXCEPT !.lines = Append(Tail(m.lines), ScreenLine_new(Cols)),
                    !.scrollback = kept]
  ELSE m

scroll_up(m) ==
  IF m.lines # <<>>
  THEN LET line == Head(m.lines)
           pushed == Append(m.scrollback, line)
           kept == IF Len(pushed) > MaxScrollback THEN Tail(pushed) ELSE pushed
       IN [m EXCEPT !.lines = Append(Tail(m.lines), ScreenLine_new(Cols)),
                    !.scrollback = kept,
                    !.full_repaint = TRUE]
  ELSE m

\* self.viewport_offset + n is a usize addition: a sum past the largest usize
\* aborts in a build with overflow checks and wraps around in one without.
scroll_view_up(m, n, overflow_checks) ==
  IF n > UsizeMax - m.viewport_offset
  THEN IF overflow_checks
       THEN [m EXCEPT !.panic = OverflowPanic]
       ELSE LET wrapped == m.viewport_offset - (UsizeMax - n) - 1
            IN [m EXCEPT !.viewport_offset = Min(wrapped, Len(m.scrollback)),
                         !.full_repaint = TRUE]
  ELSE [m EXCEPT !.viewport_offset = Min(m.viewport_offset + n, Len(m.scrollback)),
                 !.full_repaint = TRUE]

scroll_view_down(m, n) ==
  [m EXCEPT !.viewport_offset = SaturatingSub(m.viewport_offset, n),
            !.full_repaint = TRUE]

reset_view(m) ==
  IF m.viewport_offset # 0
  THEN [m EXCEPT !.viewport_offset = 0, !.full_repaint = TRUE]
  ELSE m

\* ------------------------------------------------------------ vte::Perform
\* Faulty variant of the wrap: at the bottom row it stays on the row without
\* scrolling.
PrintWrap_without_scroll(m) ==
  IF m.cursor_x >= Cols
  THEN [m EXCEPT !.cursor_x = 0, !.cursor_y = Min(m.cursor_y + 1, Rows - 1)]
  ELSE m

\* The wrap of print: a cursor left past the last column moves to the start
\* of the next row, scrolling when that row is below the grid.
PrintWrap(m) ==
  IF m.cursor_x >= Cols
  THEN LET w == [m EXCEPT !.cursor_x = 0, !.cursor_y = m.cursor_y + 1]
       IN IF w.cursor_y >= Rows
          THEN [scroll_up(w) EXCEPT !.cursor_y = Rows - 1]
          ELSE w
  ELSE m

\* Faulty variant of the write: also blanks the cells to the right of the one
\* written.
PrintWrite_blanking_rest(m, c) ==
  LET line == m.lines[m.cursor_y + 1]
  IN IF m.cursor_x < Len(line.chars)
     THEN [m EXCEPT !.lines[m.cursor_y + 1] =
                       [chars |-> VecOf([i \in 1..Len(line.chars) |->
                                           IF i = m.cursor_x + 1 THEN c
                                           ELSE IF i > m.cursor_x + 1 THEN " "
                                           ELSE line.chars[i]],
                                        Len(line.chars)),
                        attrs |-> [line.attrs EXCEPT ![m.cursor_x + 1] = m.current_attrs],
                        dirty |-> TRUE],
                    !.cursor_x = m.cursor_x + 1]
     ELSE m

PrintWrite(m, c) ==
  LET line == m.lines[m.cursor_y + 1]
  IN IF m.cursor_x < Len(line.chars)
     THEN [m EXCEPT !.lines[m.cursor_y + 1] =
                       [chars |-> [line.chars EXCEPT ![m.cursor_x + 1] = c],
                        attrs |-> [line.attrs EXCEPT ![m.cursor_x + 1] = m.current_attrs],
                        dirty |-> TRUE],
                    !.cursor_x = m.cursor_x + 1]
     ELSE m

\* Faulty variant of print: wraps as soon as the last column is written
\* instead of when the next character arrives.
print_wrapping_early(m, c) ==
  PrintWrap(PrintWrite(reset_view(m), c))

print(m, c) ==
  LET v == reset_view(m)
      s == IF v.cursor_y >= Rows
           THEN [scroll_up(v) EXCEPT !.cursor_y = Rows - 1]
           ELSE v
  IN PrintWrite(PrintWrap(s), c)

LF == 10
CR == 13
BS == 8
BEL == 7

LineFeed(m) ==
  LET d == [m EXCEPT !.cursor_y = m.cursor_y + 1]
  IN IF d.cursor_y >= Rows
     THEN [scroll_up(d) EXCEPT !.cursor_y = Rows - 1]
     ELSE d

execute(m, byte) ==
  LET v == reset_view(m)
  IN CASE byte = LF -> LineFeed(v)
       [] byte = CR -> [v EXCEPT !.cursor_x = 0]
       [] byte = BS -> IF v.cursor_x > 0
                       THEN [v EXCEPT !.cursor_x = v.cursor_x - 1]
                       ELSE v
       [] OTHER -> v

\* params.iter().next().map(|p| p[0]).unwrap_or(d): params is the sequence of
\* the first sub-parameter of every parameter, each a u16.
FirstParam(params, d) == IF Len(params) > 0 THEN params[1] ELSE d
SecondParam(params, d) == IF Len(params) > 1 THEN params[2] ELSE d

\* for i in lo..hi { line.chars[i] = ' '; line.attrs[i] = attrs; } on the
\* cells the row has; the loop aborts at the first i the row does not have.
EraseCells(line, lo, hi, attrs) ==
  [line EXCEPT
     !.chars = VecOf([i \in 1..Len(line.chars) |->
                        IF lo <= i - 1 /\ i - 1 < hi THEN " " ELSE line.chars[i]],
                     Len(line.chars)),
     !.attrs = VecOf([i \in 1..Len(line.attrs) |->
                        IF lo <= i - 1 /\ i - 1 < hi THEN attrs ELSE line.attrs[i]],
                     Len(line.attrs))]

EraseOverruns(line, lo, hi) == lo < hi /\ hi > Len(line.chars)

\* The erase loop over one row of the grid followed by line.dirty = true.
EraseInRow(m, y, lo, hi) ==
  LET erased == EraseCells(m.lines[y + 1], lo, hi, m.current_attrs)
  IN IF EraseOverruns(m.lines[y + 1], lo, hi)
     THEN [m EXCEPT !.lines[y + 1] = erased, !.panic = IndexPanic]
     ELSE [m EXCEPT !.lines[y + 1] = [erased EXCEPT !.dirty = TRUE]]

ClearRows(m, from, to) ==
  [m EXCEPT !.lines = VecOf([y \in 1..Len(m.lines) |->
                               IF from <= y - 1 /\ y - 1 < to
                               THEN ScreenLine_clear(m.lines[y])
                               ELSE m.lines[y]],
                            Len(m.lines))]

\* Faulty variant of erase-in-display: mode 2 erases from the cursor on, as
\* mode 0 does.
EraseInDisplay_below_for_all(m, params) ==
  LET n == FirstParam(params, 0)
  IN CASE n = 0 \/ n = 2 ->
            ClearRows(EraseInRow(m, m.cursor_y, m.cursor_x, Cols),
                      m.cursor_y + 1, Rows)
       [] n = 1 -> EraseInRow(ClearRows(m, 0, m.cursor_y),
                              m.cursor_y, 0, m.cursor_x + 1)
       [] OTHER -> m

EraseInDisplay(m, params) ==
  LET n == FirstParam(params, 0)
  IN CASE n = 0 -> ClearRows(EraseInRow(m, m.cursor_y, m.cursor_x, Cols),
                             m.cursor_y + 1, Rows)
       [] n = 1 -> EraseInRow(ClearRows(m, 0, m.cursor_y),
                              m.cursor_y, 0, m.cursor_x + 1)
       [] n = 2 -> clear(m)
       [] OTHER -> m

\* Faulty variant of erase-in-line: also moves the cursor to the first column.
EraseInLine_homing(m, params) ==
  [EraseInRow(m, m.cursor_y, 0, Cols) EXCEPT !.cursor_x = 0]

EraseInLine(m, params) ==
  LET n == FirstParam(params, 0)
  IN CASE n = 0 -> EraseInRow(m, m.cursor_y, m.cursor_x, Cols)
       [] n = 1 -> EraseInRow(m, m.cursor_y, 0, m.cursor_x + 1)
       [] n = 2 -> EraseInRow(m, m.cursor_y, 0, Cols)
       [] OTHER -> [m EXCEPT !.lines[m.cursor_y + 1].dirty = TRUE]

\* Faulty variant of one SGR parameter: 0 restores the colours only.
SgrParam_reset_keeps_flags(attrs, p) ==
  CASE p = 0 -> [attrs EXCEPT !.fg = DefaultFg, !.bg = DefaultBg]
    [] p = 1 -> [attrs EXCEPT !.bold = TRUE]
    [] p = 4 -> [attrs EXCEPT !.underline = TRUE]
    [] p = 7 -> [attrs EXCEPT !.reverse = TRUE]
    [] p = 22 -> [attrs EXCEPT !.bold = FALSE]
    [] p = 24 -> [attrs EXCEPT !.underline = FALSE]
    [] p = 27 -> [attrs EXCEPT !.reverse = FALSE]
    [] p >= 30 /\ p <= 37 -> [attrs EXCEPT !.fg = Indexed(p - 30)]
    [] p = 39 -> [attrs EXCEPT !.fg = DefaultFg]
    [] p >= 40 /\ p <= 47 -> [attrs EXCEPT !.bg = Indexed(p - 40)]
    [] p = 49 -> [attrs EXCEPT !.bg = DefaultBg]
    [] p >= 90 /\ p <= 97 -> [attrs EXCEPT !.fg = Indexed(p - 90 + 8)]
    [] p >= 100 /\ p <= 107 -> [attrs EXCEPT !.bg = Indexed(p - 100 + 8)]
    [] OTHER -> attrs

SgrParam(attrs, p) ==
  CASE p = 0 -> Attrs_default
    [] p = 1 -> [attrs EXCEPT !.bold = TRUE]
    [] p = 4 -> [attrs EXCEPT !.underline = TRUE]
    [] p = 7 -> [attrs EXCEPT !.reverse = TRUE]
    [] p = 22 -> [attrs EXCEPT !.bold = FALSE]
    [] p = 24 -> [attrs EXCEPT !.underline = FALSE]
    [] p = 27 -> [attrs EXCEPT !.reverse = FALSE]
    [] p >= 30 /\ p <= 37 -> [attrs EXCEPT !.fg = Indexed(p - 30)]
    [] p = 39 -> [attrs EXCEPT !.fg = DefaultFg]
    [] p >= 40 /\ p <= 47 -> [attrs EXCEPT !.bg = Indexed(p - 40)]
    [] p = 49 -> [attrs EXCEPT !.bg = DefaultBg]
    [] p >= 90 /\ p <= 97 -> [attrs EXCEPT !.fg = Indexed(p - 90 + 8)]
    [] p >= 100 /\ p <= 107 -> [attrs EXCEPT !.bg = Indexed(p - 100 + 8)]
    [] OTHER -> attrs

RECURSIVE SgrFold(_, _)
SgrFold(attrs, params) ==
  IF params = <<>> THEN attrs
  ELSE SgrFold(SgrParam(attrs, Head(params)), Tail(params))

CursorUp(m, params) ==
  [m EXCEPT !.cursor_y = SaturatingSub(m.cursor_y, FirstParam(params, 1))]

CursorDown(m, params) ==
  [m EXCEPT !.cursor_y = Min(m.cursor_y + FirstParam(params, 1), Rows - 1)]

\* Faulty variant of cursor forward: no clamp at the last column.
CursorForward_unclamped(m, params) ==
  [m EXCEPT !.cursor_x = m.cursor_x + FirstParam(params, 1)]

CursorForward(m, params) ==
  [m EXCEPT !.cursor_x = Min(m.cursor_x + FirstParam(params, 1), Cols - 1)]

CursorBackward(m, params) ==
  [m EXCEPT !.cursor_x = SaturatingSub(m.cursor_x, FirstParam(params, 1))]

\* Faulty variant of cursor position: takes row and column as 0-based.
CursorPosition_zero_based(m, params) ==
  [m EXCEPT !.cursor_y = Min(FirstParam(params, 0), Rows - 1),
            !.cursor_x = Min(SecondParam(params, 0), Cols - 1)]

CursorPosition(m, params) ==
  LET row == Max(FirstParam(params, 1), 1) - 1
      col == Max(SecondParam(params, 1), 1) - 1
  IN [m EXCEPT !.cursor_y = Min(row, Rows - 1),
               !.cursor_x = Min(col, Cols - 1)]

\* Faulty variant of SGR: applies the first parameter only.
SelectGraphicRendition_first_only(m, params) ==
  [m EXCEPT !.current_attrs = SgrParam(m.current_attrs, FirstParam(params, 0))]

SelectGraphicRendition(m, params) ==
  [m EXCEPT !.current_attrs = SgrFold(m.current_attrs, params)]

\* Faulty variant of csi_dispatch: interprets a sequence whatever its ignore
\* flag and intermediate bytes.
csi_dispatch_unfiltered(m, params, intermediates, ignore, action) ==
  CASE action = "A" -> CursorUp(m, params)
    [] action = "B" -> CursorDown(m, params)
    [] action = "C" -> CursorForward(m, params)
    [] action = "D" -> CursorBackward(m, params)
    [] action \in {"H", "f"} -> CursorPosition(m, params)
    [] action = "J" -> EraseInDisplay(m, params)
    [] action = "K" -> EraseInLine(m, params)
    [] action = "m" -> SelectGraphicRendition(m, params)
    [] OTHER -> m

csi_dispatch(m, params, intermediates, ignore, action) ==
  IF ignore \/ intermediates # <<>> THEN m
  ELSE CASE action = "A" -> CursorUp(m, params)
         [] action = "B" -> CursorDown(m, params)
         [] action = "C" -> CursorForward(m, params)
         [] action = "D" -> CursorBackward(m, params)
         [] action \in {"H", "f"} -> CursorPosition(m, params)
         [] action = "J" -> EraseInDisplay(m, params)
         [] action = "K" -> EraseInLine(m, params)
         [] action = "m" -> SelectGraphicRendition(m, params)
         [] OTHER -> m

\* The callbacks of device control strings, operating system commands and
\* escape sequences: their bodies are empty.
hook(m, params, intermediates, ignore, action) == m
put(m, byte) == m
unhook(m) == m
osc_dispatch(m, params, bell_terminated) == m
esc_dispatch(m, intermediates, ignore, byte) == m

\* ------------------------------------------------------------------ Screen
\* The characters of the bytes 32..126 (byte 96 by its name: a string cannot
\* hold the grave accent).
Ascii ==
  << " ", "!", "\"", "#", "$", "%", "&", "'", "(", ")", "*", "+",
     ",", "-", ".", "/", "0", "1", "2", "3", "4", "5", "6", "7",
     "8", "9", ":", ";", "<", "=", ">", "?", "@", "A", "B", "C",
     "D", "E", "F", "G", "H", "I", "J", "K", "L", "M", "N", "O",
     "P", "Q", "R", "S", "T", "U", "V", "W", "X", "Y", "Z", "[",
     "\\", "]", "^", "_", "grave", "a", "b", "c", "d", "e", "f", "g",
     "h", "i", "j", "k", "l", "m", "n", "o", "p", "q", "r", "s",
     "t", "u", "v", "w", "x", "y", "z", "{", "|", "}", "~" >>

\* char of a byte of printable ASCII
AsChar(byte) == Ascii[byte - 31]

\* vte::Parser: the state of the escape-sequence state machine, the
\* parameters and intermediate bytes collected so far, and the parameter
\* being read.
Parser_new ==
  [state |-> "Ground", params |-> <<>>, param |-> 0, intermediates |-> <<>>]

\* Screen::new
Screen_new == [model |-> ScreenModel_default, parser |-> Parser_new]

\* self.parser.advance(&mut self.model, byte) for a byte below 128 of a
\* well-formed stream (at most 32 parameters, private markers before the
\* parameters, intermediates after them, no sub-parameters, no CAN or SUB).
\* ESC starts a sequence in every state; a C0 control is executed at once
\* outside a string; in a sequence, digits and ';' build the parameters
\* (u16, saturating), bytes 32..47 and 60..63 are kept as intermediates, and
\* the final byte dispatches with the parameter being read as the last one;
\* an OSC string runs to BEL or ESC, a DCS, SOS, PM or APC string to ESC, and
\* they reach the model only through callbacks with empty bodies.
advance(scr, byte) ==
  LET m == scr.model
      p == scr.parser
  IN IF byte = 27
     THEN [model |-> IF p.state = "OscString" THEN osc_dispatch(m, p.params, FALSE)
                     ELSE IF p.state = "String" THEN unhook(m)
                     ELSE m,
           parser |-> [Parser_new EXCEPT !.state = "Escape"]]
     ELSE IF p.state = "OscString"
     THEN IF byte = BEL
          THEN [model |-> osc_dispatch(m, p.params, TRUE), parser |-> Parser_new]
          ELSE scr
     ELSE IF p.state = "String"
     THEN [scr EXCEPT !.model = put(m, byte)]
     ELSE IF byte < 32
     THEN [scr EXCEPT !.model = execute(m, byte)]
     ELSE IF p.state = "Ground"
     THEN [scr EXCEPT !.model = print(m, AsChar(byte))]
     ELSE IF p.state = "Escape"
     THEN IF byte = 91 /\ p.intermediates = <<>>
          THEN [scr EXCEPT !.parser.state = "Csi"]
          ELSE IF byte = 93 /\ p.intermediates = <<>>
          THEN [scr EXCEPT !.parser.state = "OscString"]
          ELSE IF byte \in {80, 88, 94, 95} /\ p.intermediates = <<>>
          THEN [scr EXCEPT !.parser.state = "String"]
          ELSE IF byte \in 32..47
          THEN [scr EXCEPT !.parser.intermediates =
                             Append(p.intermediates, AsChar(byte))]
          ELSE [model |-> esc_dispatch(m, p.intermediates, FALSE, AsChar(byte)),
                parser |-> Parser_new]
     ELSE IF byte \in 48..57
     THEN [scr EXCEPT !.parser.param = Min(p.param * 10 + (byte - 48), 65535)]
     ELSE IF byte = 59
     THEN [scr EXCEPT !.parser.params = Append(p.params, p.param),
                      !.parser.param = 0]
     ELSE IF byte \in (32..47) \cup (60..63)
     THEN [scr EXCEPT !.parser.intermediates =
                        Append(p.intermediates, AsChar(byte))]
     ELSE [model |-> csi_dispatch(m, Append(p.params, p.param),
                                  p.intermediates, FALSE, AsChar(byte)),
           parser |-> Parser_new]

\* Faulty variant of the loop of parse_bytes: takes the bytes from the end.
FeedOne_last_first(scr, bytes) ==
  [scr |-> advance(scr, bytes[Len(bytes)]),
   rest |-> SubSeq(bytes, 1, Len(bytes) - 1)]

\* One turn of the loop of parse_bytes: the first of the bytes left is
\* advanced over, the others are left.
FeedOne(scr, bytes) ==
  [scr |-> advance(scr, Head(bytes)), rest |-> Tail(bytes)]

\* Screen::parse_bytes: the bytes in order, one advance each.
RECURSIVE parse_bytes(_, _)
parse_bytes(scr, bytes) ==
  IF bytes = <<>> \/ scr.model.panic # NoPanic THEN scr
  ELSE parse_bytes(advance(scr, Head(bytes)), Tail(bytes))

\* Screen::clear
Screen_clear(scr) == [scr EXCEPT !.model = clear(scr.model)]

\* AsyncMutex: lock() completes only while no guard is alive. The faulty
\* variant lets it complete at any time.
CanLock_whenever(isLocked) == TRUE

CanLock(isLocked) == ~isLocked

\* --------------------------------------------------------- update_display
\* What the display adapter does in one paint cycle: every call succeeds, or
\* the calls of one kind return Err.
DisplayFaults == {"none", "clear", "fill_solid", "text"}

\* Faulty variant: the view is the live grid whatever viewport_offset is.
SourceRow_live_only(m, y) == [sb |-> FALSE, idx |-> y]

\* The row painted at screen row y: of the scrollback (sb) or of the grid,
\* with its 0-based index there.
SourceRow(m, y) ==
  IF m.viewport_offset > 0
  THEN LET total_len == Len(m.scrollback) + Rows
           view_start == SaturatingSub(SaturatingSub(total_len, Rows), m.viewport_offset)
           abs_idx == view_start + y
       IN IF abs_idx < Len(m.scrollback)
          THEN [sb |-> TRUE, idx |-> abs_idx]
          ELSE [sb |-> FALSE, idx |-> abs_idx - Len(m.scrollback)]
  ELSE [sb |-> FALSE, idx |-> y]

SourceInRange(m, src) ==
  IF src.sb THEN src.idx < Len(m.scrollback) ELSE src.idx < Len(m.lines)

SourceLine(m, src) ==
  IF src.sb THEN m.scrollback[src.idx + 1] ELSE m.lines[src.idx + 1]

\* The rows on the panel: for each screen row, the cells the paint cycle that
\* drew the row last drew there, Undrawn where none was drawn since the
\* panel was cleared. The block filled over the cursor's cell at the end of
\* a cycle is no cell of a row and is not recorded.
Undrawn == ""

Display_clear ==
  VecOf([y \in 1..Rows |->
           [chars |-> VecOf([x \in 1..Cols |-> Undrawn], Cols),
            attrs |-> VecOf([x \in 1..Cols |-> Attrs_default], Cols)]], Rows)

\* The cells of a row drawn at screen row y.
DrawRow(d, y, line) ==
  [d EXCEPT ![y + 1] = [chars |-> line.chars, attrs |-> line.attrs]]

\* Whether the loop passes over a row: `!line.dirty && !self.full_repaint`.
\* The faulty variant passes over every clean row.
Skipped_when_clean(m, line) == ~line.dirty

Skipped(m, line) == ~line.dirty /\ ~m.full_repaint

\* `line.dirty = false` on the row painted. The faulty variant puts a new
\* clean row in its place.
MarkClean_renewing(m, src) ==
  LET renewed == [ScreenLine_new(Cols) EXCEPT !.dirty = FALSE]
  IN IF src.sb
     THEN [m EXCEPT !.scrollback[src.idx + 1] = renewed]
     ELSE [m EXCEPT !.lines[src.idx + 1] = renewed]

MarkClean(m, src) ==
  IF src.sb
  THEN [m EXCEPT !.scrollback[src.idx + 1].dirty = FALSE]
  ELSE [m EXCEPT !.lines[src.idx + 1].dirty = FALSE]

\* Screen rows y..rows-1 of the loop of update_display, in order, on the
\* model and the panel (s.model, s.display); s.painted collects the screen
\* rows the loop has drawn.
RECURSIVE PaintRows(_, _, _)
PaintRows(s, y, fault) ==
  IF y >= Rows THEN s
  ELSE LET m == s.model
           src == SourceRow(m, y)
       IN IF ~SourceInRange(m, src)
          THEN [s EXCEPT !.model.panic = IndexPanic]
          ELSE IF Skipped(m, SourceLine(m, src))
               THEN PaintRows(s, y + 1, fault)
          ELSE IF fault = "fill_solid" /\ Cols > 0
               THEN [s EXCEPT !.model.panic = UnwrapPanic]
          ELSE PaintRows(
                 [model |-> MarkClean(m, src),
                  display |-> DrawRow(s.display, y, SourceLine(m, src)),
                  painted |-> s.painted \cup {y}],
                 y + 1, fault)

\* One paint cycle on the model m and the panel d: the model and the panel
\* after it, and the screen rows it drew.
update_display(m, d, fault) ==
  IF m.full_repaint /\ fault = "clear"
  THEN [model |-> [m EXCEPT !.panic = UnwrapPanic], display |-> d,
        painted |-> {}]
  ELSE LET s == PaintRows([model |-> m,
                           display |-> IF m.full_repaint THEN Display_clear
                                       ELSE d,
                           painted |-> {}], 0, fault)
       IN IF s.model.panic # NoPanic THEN s
          ELSE [model |-> [s.model EXCEPT !.full_repaint = FALSE],
                display |-> s.display,
                painted |-> s.painted]

\* ------------------------------------------------------------------ state
\* The fields of ScreenModel and why the program aborted, if it did (panic).
\* Records of the run: the number of operations applied (steps), the
\* operation applied last (last), every row that left the top of the grid
\* in the order it left (evicted), and the characters printed so far while
\* nothing but print callbacks has run (printed).
VARIABLES lines, scrollback, viewport_offset, cursor_x, cursor_y,
          current_attrs, full_repaint, panic, steps, last, evicted, printed

\* The parser of the Screen (parser) and the tasks that share the Screen
\* behind SCREEN: whether a guard of the mutex is alive (locked), where each
\* task is (pc), the calls each producer makes (programs) and has yet to
\* make (calls), the bytes its running parse_bytes has yet to take (todo),
\* and the model as the last completed call left it (committed).
VARIABLES parser, locked, pc, programs, calls, todo, committed

\* The rows on the panel of the device, as the paint cycles left them.
VARIABLE display

taskvars == <<parser, locked, pc, programs, calls, todo, committed>>

vars == <<lines, scrollback, viewport_offset, cursor_x, cursor_y,
          current_attrs, full_repaint, panic, steps, last, evicted, printed,
          parser, locked, pc, programs, calls, todo, committed, display>>

Model ==
  [lines |-> lines, scrollback |-> scrollback,
   viewport_offset |-> viewport_offset,
   cursor_x |-> cursor_x, cursor_y |-> cursor_y,
   current_attrs |-> current_attrs, full_repaint |-> full_repaint,
   panic |-> panic]

Becomes(m) ==
  /\ lines' = m.lines
  /\ scrollback' = m.scrollback
  /\ viewport_offset' = m.viewport_offset
  /\ cursor_x' = m.cursor_x
  /\ cursor_y' = m.cursor_y
  /\ current_attrs' = m.current_attrs
  /\ full_repaint' = m.full_repaint
  /\ panic' = m.panic

\* ----------------------------------------------------------------- inputs
Chars == {"a"}
\* The characters of the run that only prints.
FillChars == {"a", "b"}
C0Bytes == {LF, CR, BS, BEL}
\* Parameter values of cursor moves: none given (0), in range, out of range.
MoveParams == {0, 1, 65535}
EraseModes == {0, 1, 2, 3}
\* reset, underline, and a value the table does not list
SgrParams == {0, 4, 5}
\* Rows to scroll the view by: none, some, and the largest usize.
ScrollAmounts == {0, 1, 2, UsizeMax}
\* Whether the build checks arithmetic overflow (debug) or not (release).
OverflowChecks == BOOLEAN

\* The CSI sequences fed: [params, intermediates, ignore, action].
Csi(params, action) ==
  [params |-> params, intermediates |-> <<>>, ignore |-> FALSE, action |-> action]

CursorCsi ==
  {Csi(<<n>>, a) : n \in MoveParams, a \in {"A", "B", "C", "D"}}
    \cup {Csi(<<r, c>>, "H") : r \in {0, 2, 65535}, c \in {0, 2, 65535}}
    \cup {Csi(<<2, 2>>, "f")}
    \cup {Csi(<<0>>, "H")}

EraseCsi == {Csi(<<n>>, a) : n \in EraseModes, a \in {"J", "K"}}

SgrCsi ==
  {Csi(<<p>>, "m") : p \in SgrParams} \cup {Csi(<<4, 0>>, "m")}

DroppedCsi ==
  {Csi(<<0>>, "z"),
   [Csi(<<2>>, "J") EXCEPT !.ignore = TRUE],
   [Csi(<<2>>, "J") EXCEPT !.intermediates = <<"?">>]}

\* The callbacks with empty bodies, as the parser calls them for ESC P 1 $ q
\* ... ESC \\ (hook, put, unhook), ESC ] 0 ; t BEL (osc_dispatch) and ESC c or
\* ESC ( B (esc_dispatch).
StubCalls ==
  {[callback |-> "hook", params |-> <<1>>, intermediates |-> <<"$">>,
    ignore |-> FALSE, byte |-> "q"],
   [callback |-> "put", params |-> <<>>, intermediates |-> <<>>,
    ignore |-> FALSE, byte |-> "m"],
   [callback |-> "unhook", params |-> <<>>, intermediates |-> <<>>,
    ignore |-> FALSE, byte |-> ""],
   [callback |-> "osc_dispatch", params |-> <<"0", "t">>, intermediates |-> <<>>,
    ignore |-> FALSE, byte |-> ""],
   [callback |-> "esc_dispatch", params |-> <<>>, intermediates |-> <<>>,
    ignore |-> FALSE, byte |-> "c"],
   [callback |-> "esc_dispatch", params |-> <<>>, intermediates |-> <<"(">>,
    ignore |-> TRUE, byte |-> "B"]}

StubCall(m, s) ==
  CASE s.callback = "hook" -> hook(m, s.params, s.intermediates, s.ignore, s.byte)
    [] s.callback = "put" -> put(m, s.byte)
    [] s.callback = "unhook" -> unhook(m)
    [] s.callback = "osc_dispatch" -> osc_dispatch(m, s.params, TRUE)
    [] s.callback = "esc_dispatch" -> esc_dispatch(m, s.intermediates, s.ignore, s.byte)

CsiInputs == CursorCsi \cup EraseCsi \cup SgrCsi \cup DroppedCsi

Dispatch(m, i) == csi_dispatch(m, i.params, i.intermediates, i.ignore, i.action)

\* What last keeps of a CSI sequence: its final byte and first parameter,
\* or that the sequence is one csi_dispatch drops.
CsiKey(i) ==
  IF i.ignore \/ i.intermediates # <<>> THEN <<"dropped", 0>>
  ELSE <<i.action, IF i.action \in {"J", "K"} THEN FirstParam(i.params, 0) ELSE 0>>

\* The tasks: the painter and two producers.
Producers == {"shell", "serial"}
Tasks == Producers \cup {"painter"}

\* ---------------------------------------------------------------- actions
InitScreen ==
  /\ lines = ScreenModel_default.lines
  /\ scrollback = ScreenModel_default.scrollback
  /\ viewport_offset = ScreenModel_default.viewport_offset
  /\ cursor_x = ScreenModel_default.cursor_x
  /\ cursor_y = ScreenModel_default.cursor_y
  /\ current_attrs = ScreenModel_default.current_attrs
  /\ full_repaint = ScreenModel_default.full_repaint
  /\ panic = ScreenModel_default.panic
  /\ steps = 0
  /\ last = [op |-> "new", key |-> <<"", 0>>]
  /\ evicted = <<>>
  /\ printed = [only |-> TRUE, chars |-> <<>>]
  /\ parser = Screen_new.parser
  /\ locked = FALSE
  /\ todo = [p \in Producers |-> <<>>]
  /\ committed = ScreenModel_default
  /\ display = Display_clear

\* The runs of callbacks and operations on the model alone: no task has a
\* call to make.
Init ==
  /\ InitScreen
  /\ programs = [p \in Producers |-> <<>>]
  /\ calls = programs
  /\ pc = [t \in Tasks |-> IF t = "painter" THEN "start" ELSE "done"]

Running == panic = NoPanic /\ steps < MaxSteps

\* The producer and painter operations other than print leave `printed`
\* closed; only a line feed at the bottom row or a wrap there sends a row out
\* of the grid.
Did(op, key) ==
  /\ steps' = steps + 1
  /\ last' = [op |-> op, key |-> key]
  /\ UNCHANGED taskvars
  /\ UNCHANGED display

NotOnlyPrints == printed' = [only |-> FALSE, chars |-> <<>>]

PrintOneOf(chars) ==
  /\ \E c \in chars :
       /\ Becomes(print(Model, c))
       /\ Did("print", <<c, 0>>)
       /\ printed' = IF printed.only
                     THEN [printed EXCEPT !.chars = Append(printed.chars, c)]
                     ELSE printed
  /\ evicted' = IF cursor_x >= Cols /\ cursor_y + 1 >= Rows
                THEN Append(evicted, lines[1])
                ELSE evicted

PrintCallback == Running /\ PrintOneOf(Chars)

ExecuteCallback ==
  /\ Running
  /\ \E b \in C0Bytes :
       /\ Becomes(execute(Model, b))
       /\ Did("execute", <<"", b>>)
       /\ evicted' = IF b = LF /\ cursor_y + 1 >= Rows
                     THEN Append(evicted, lines[1])
                     ELSE evicted
  /\ NotOnlyPrints

CsiCallback ==
  /\ Running
  /\ \E i \in CsiInputs :
       /\ Becomes(Dispatch(Model, i))
       /\ Did("csi_dispatch", CsiKey(i))
  /\ NotOnlyPrints
  /\ UNCHANGED evicted

StubCallback ==
  /\ Running
  /\ \E s \in StubCalls :
       /\ Becomes(StubCall(Model, s))
       /\ Did("stub", <<"", 0>>)
  /\ NotOnlyPrints
  /\ UNCHANGED evicted

Clear ==
  /\ Running
  /\ Becomes(clear(Model))
  /\ Did("clear", <<"", 0>>)
  /\ NotOnlyPrints
  /\ UNCHANGED evicted

ScrollViewUp ==
  /\ Running
  /\ \E n \in ScrollAmounts : \E checks \in OverflowChecks :
       /\ Becomes(scroll_view_up(Model, n, checks))
       /\ Did("scroll_view_up", <<"", 0>>)
  /\ NotOnlyPrints
  /\ UNCHANGED evicted

ScrollViewDown ==
  /\ Running
  /\ \E n \in ScrollAmounts :
       /\ Becomes(scroll_view_down(Model, n))
       /\ Did("scroll_view_down", <<"", 0>>)
  /\ NotOnlyPrints
  /\ UNCHANGED evicted

ResetView ==
  /\ Running
  /\ Becomes(reset_view(Model))
  /\ Did("reset_view", <<"", 0>>)
  /\ NotOnlyPrints
  /\ UNCHANGED evicted

UpdateDisplay ==
  /\ Running
  /\ \E fault \in DisplayFaults :
       LET painted == update_display(Model, display, fault)
       IN /\ Becomes(painted.model)
          /\ display' = painted.display
  /\ steps' = steps + 1
  /\ last' = [op |-> "update_display", key |-> <<"", 0>>]
  /\ UNCHANGED taskvars
  /\ NotOnlyPrints
  /\ UNCHANGED evicted

Next ==
  \/ PrintCallback
  \/ ExecuteCallback
  \/ CsiCallback
  \/ StubCallback
  \/ Clear
  \/ ScrollViewUp
  \/ ScrollViewDown
  \/ ResetView
  \/ UpdateDisplay

Spec == Init /\ [][Next]_vars

\* The run that only prints, from the new model to one row of characters
\* past a full grid.
FillPrint ==
  /\ panic = NoPanic
  /\ steps < Cols * Rows + 2
  /\ PrintOneOf(FillChars)

SpecFill == Init /\ [][FillPrint]_vars

\* The run of cursor moves: characters, C0 controls and the cursor-move
\* sequences only.
CursorCallback ==
  /\ Running
  /\ \E i \in CursorCsi :
       /\ Becomes(Dispatch(Model, i))
       /\ Did("csi_dispatch", CsiKey(i))
  /\ NotOnlyPrints
  /\ UNCHANGED evicted

CursorNext == PrintCallback \/ ExecuteCallback \/ CursorCallback

SpecCursor == Init /\ [][CursorNext]_vars

\* The run of styles: SGR sequences and prints only. The parameters fed set
\* and reset every field of the style; one is a value the match does not
\* list.
SgrFeed == {0, 1, 4, 7, 27, 31, 42, 49, 97, 100, 5}

SgrSequences ==
  {<<p>> : p \in SgrFeed} \cup {<<1, 0>>, <<31, 42>>, <<0, 7>>}

SgrCallback ==
  /\ Running
  /\ \E ps \in SgrSequences :
       /\ Becomes(Dispatch(Model, Csi(ps, "m")))
       /\ Did("csi_dispatch", <<"m", 0>>)
  /\ NotOnlyPrints
  /\ UNCHANGED evicted

SgrPrint == Running /\ PrintOneOf(Chars)

SgrNext == SgrCallback \/ SgrPrint

SpecSgr == Init /\ [][SgrNext]_vars

\* The run of paint cycles: characters, C0 controls, erases, cursor
\* positioning and an underline, clear, the viewport operations and paint
\* cycles.
PaintCsi ==
  EraseCsi \cup {Csi(<<2, 2>>, "H"), Csi(<<0>>, "H"), Csi(<<4>>, "m")}

PaintCallback ==
  /\ Running
  /\ \E i \in PaintCsi :
       /\ Becomes(Dispatch(Model, i))
       /\ Did("csi_dispatch", CsiKey(i))
  /\ NotOnlyPrints
  /\ UNCHANGED evicted

PaintNext ==
  \/ PrintCallback
  \/ ExecuteCallback
  \/ PaintCallback
  \/ Clear
  \/ ScrollViewUp
  \/ ScrollViewDown
  \/ ResetView
  \/ UpdateDisplay

SpecPaint == Init /\ [][PaintNext]_vars

\* ------------------------------------------------------------------ tasks
\* The calls of a producer: Screen::print / parse_bytes with the bytes of
\* complete sequences, and cls_command.
Write(bytes) == [kind |-> "write", bytes |-> bytes]
Cls == [kind |-> "clear", bytes |-> <<>>]

\* "a" ESC [ 1 m "b";  ESC [ 2 ; 2 H then "b";  cls
ShellPrograms ==
  {<<Write(<<97, 27, 91, 49, 109, 98>>)>>,
   <<Write(<<27, 91, 50, 59, 50, 72>>), Write(<<98>>)>>,
   <<Cls>>}

\* "ab" LF;  ESC [ 4 m "a" ESC [ 0 m;  cls then "b";  ESC ] 0 ; "a" BEL "b"
SerialPrograms ==
  {<<Write(<<97, 98, 10>>)>>,
   <<Write(<<27, 91, 52, 109, 97, 27, 91, 48, 109>>)>>,
   <<Cls, Write(<<98>>)>>,
   <<Write(<<27, 93, 48, 59, 97, 7, 98>>)>>}

InitTasks ==
  /\ InitScreen
  /\ \E sh \in ShellPrograms : \E se \in SerialPrograms :
       programs = [p \in Producers |-> IF p = "shell" THEN sh ELSE se]
  /\ calls = programs
  /\ pc = [t \in Tasks |-> IF t = "painter" THEN "start" ELSE "lock"]

\* What a step of a task leaves alone: the records of the runs of callbacks.
TaskStep == UNCHANGED <<steps, last, evicted, printed>>

\* Where a producer goes after a call.
AfterCall(p) == IF Tail(calls[p]) = <<>> THEN "done" ELSE "lock"

\* screen_painter before its loop: display.clear(..).unwrap().
PainterStart ==
  /\ panic = NoPanic
  /\ pc["painter"] = "start"
  /\ \E fault \in {"none", "clear"} :
       IF fault = "clear"
       THEN /\ Becomes([Model EXCEPT !.panic = UnwrapPanic])
            /\ UNCHANGED <<pc, display>>
       ELSE /\ Becomes(Model)
            /\ pc' = [pc EXCEPT !["painter"] = "lock"]
            /\ display' = Display_clear
  /\ UNCHANGED <<parser, locked, programs, calls, todo, committed>>
  /\ TaskStep

\* SCREEN.get().lock().await completes for task t.
Lock(t) ==
  /\ panic = NoPanic
  /\ pc[t] = "lock"
  /\ CanLock(locked)
  /\ locked' = TRUE
  /\ pc' = [pc EXCEPT ![t] = IF t = "painter" THEN "paint" ELSE "call"]
  /\ todo' = IF t \in Producers
             THEN [todo EXCEPT ![t] = Head(calls[t]).bytes]
             ELSE todo
  /\ Becomes(Model)
  /\ UNCHANGED <<parser, programs, calls, committed, display>>
  /\ TaskStep

\* The painter's update_display under the guard, which is dropped at the end
\* of the statement.
PainterPaint ==
  /\ panic = NoPanic
  /\ pc["painter"] = "paint"
  /\ \E fault \in DisplayFaults :
       LET painted == update_display(Model, display, fault)
       IN /\ Becomes(painted.model)
          /\ display' = painted.display
          /\ IF painted.model.panic = NoPanic
             THEN /\ locked' = FALSE
                  /\ pc' = [pc EXCEPT !["painter"] = "tick"]
                  /\ committed' = painted.model
             ELSE UNCHANGED <<locked, pc, committed>>
  /\ UNCHANGED <<parser, programs, calls, todo>>
  /\ TaskStep

\* ticker.next().await
PainterTick ==
  /\ panic = NoPanic
  /\ pc["painter"] = "tick"
  /\ pc' = [pc EXCEPT !["painter"] = "lock"]
  /\ Becomes(Model)
  /\ UNCHANGED <<parser, locked, programs, calls, todo, committed, display>>
  /\ TaskStep

\* One byte of the parse_bytes call of producer p.
FeedByte(p) ==
  /\ panic = NoPanic
  /\ pc[p] = "call"
  /\ Head(calls[p]).kind = "write"
  /\ todo[p] # <<>>
  /\ LET fed == FeedOne([model |-> Model, parser |-> parser], todo[p])
     IN /\ Becomes(fed.scr.model)
        /\ parser' = fed.scr.parser
        /\ todo' = [todo EXCEPT ![p] = fed.rest]
  /\ UNCHANGED <<locked, pc, programs, calls, committed, display>>
  /\ TaskStep

\* parse_bytes returns and the guard of producer p is dropped.
Return(p) ==
  /\ panic = NoPanic
  /\ pc[p] = "call"
  /\ Head(calls[p]).kind = "write"
  /\ todo[p] = <<>>
  /\ locked' = FALSE
  /\ pc' = [pc EXCEPT ![p] = AfterCall(p)]
  /\ calls' = [calls EXCEPT ![p] = Tail(calls[p])]
  /\ committed' = Model
  /\ Becomes(Model)
  /\ UNCHANGED <<parser, programs, todo, display>>
  /\ TaskStep

\* cls_command: SCREEN.get().lock().await.clear()
ClsCommand(p) ==
  /\ panic = NoPanic
  /\ pc[p] = "call"
  /\ Head(calls[p]).kind = "clear"
  /\ LET cleared == Screen_clear([model |-> Model, parser |-> parser])
     IN /\ Becomes(cleared.model)
        /\ parser' = cleared.parser
        /\ committed' = cleared.model
  /\ locked' = FALSE
  /\ pc' = [pc EXCEPT ![p] = AfterCall(p)]
  /\ calls' = [calls EXCEPT ![p] = Tail(calls[p])]
  /\ UNCHANGED <<programs, todo, display>>
  /\ TaskStep

NextTasks ==
  \/ PainterStart
  \/ \E t \in Tasks : Lock(t)
  \/ PainterPaint
  \/ PainterTick
  \/ \E p \in Producers : FeedByte(p)
  \/ \E p \in Producers : Return(p)
  \/ \E p \in Producers : ClsCommand(p)

SpecTasks == InitTasks /\ [][NextTasks]_vars

\* The tasks under the executor: a task that can take its next step takes it
\* and the ticker fires (weak fairness), and a task waiting in lock() gets
\* the mutex when it is free again and again (strong fairness: the painter
\* sleeps in the ticker after each release, and a woken waiter is polled
\* before the ticker fires).
FairTasks ==
  /\ WF_vars(PainterStart)
  /\ WF_vars(PainterPaint)
  /\ WF_vars(PainterTick)
  /\ \A t \in Tasks : SF_vars(Lock(t))
  /\ \A p \in Producers :
       WF_vars(FeedByte(p)) /\ WF_vars(Return(p)) /\ WF_vars(ClsCommand(p))

SpecTasksFair == InitTasks /\ [][NextTasks]_vars /\ FairTasks

\* ------------------------------------------------------------ properties
Producer == {"print", "execute", "csi_dispatch"}
IsBlank(line) == \A x \in 1..Len(line.chars) : line.chars[x] = " "
IsFull(line) == \A x \in 1..Len(line.chars) : line.chars[x] # " "
Cells(line) == [chars |-> line.chars, attrs |-> line.attrs]

\* C1 (as claimed): after every fed callback the cursor is inside the grid,
\* 0 <= cursor_x < cols and 0 <= cursor_y < rows.
C1_CursorInsideGrid ==
  /\ 0 <= cursor_x /\ cursor_x < Cols
  /\ 0 <= cursor_y /\ cursor_y < Rows

\* C1 (amended): the cursor row is always inside the grid and the cursor
\* column is at most cols; cursor_x = cols is the state print leaves after
\* writing the last column (the wrap waits for the next print).
C1_CursorInsideGridOrPastLastColumn ==
  /\ 0 <= cursor_x /\ cursor_x <= Cols
  /\ 0 <= cursor_y /\ cursor_y < Rows

C1_Witness ==
  /\ last.op = "print"
  /\ cursor_x = Cols
  /\ IsFull(lines[cursor_y + 1])

\* C2: no print, execute or csi_dispatch callback aborts: none indexes a row
\* at a column outside 0..cols-1 or the grid at a row outside 0..rows-1.
C2_NoCallbackAborts ==
  last.op \in Producer => panic = NoPanic

\* C3: the grid has exactly rows rows, every grid and scrollback row has
\* exactly cols cells, and the scrollback holds at most max_scrollback rows.
C3_GridShape ==
  /\ Len(lines) = Rows
  /\ \A y \in 1..Len(lines) :
       Len(lines[y].chars) = Cols /\ Len(lines[y].attrs) = Cols
  /\ \A k \in 1..Len(scrollback) :
       Len(scrollback[k].chars) = Cols /\ Len(scrollback[k].attrs) = Cols
  /\ Len(scrollback) <= MaxScrollback

C3_Witness ==
  /\ Len(scrollback) = MaxScrollback
  /\ Len(evicted) > MaxScrollback

\* C4: after any print, execute or csi_dispatch callback the viewport shows
\* the live tail, viewport_offset = 0.
C4_ProducerResetsViewport ==
  last.op \in Producer => viewport_offset = 0

\* C5: after CSI 2J every cell of the grid is (space, current_style), the
\* cursor is at (0, 0) and full_repaint is set.
C5_EraseAllUsesCurrentStyle ==
  (last.op = "csi_dispatch" /\ last.key = <<"J", 2>>) =>
    /\ \A y \in 1..Len(lines) : \A x \in 1..Len(lines[y].chars) :
         lines[y].chars[x] = " " /\ lines[y].attrs[x] = current_attrs
    /\ cursor_x = 0 /\ cursor_y = 0
    /\ full_repaint

\* Erase sequences by final byte and mode.
Erase(action, mode) == Csi(<<mode>>, action)

\* The cells (x, y), 0-based, that erase-in-display and erase-in-line of the
\* given mode cover with the cursor at (cx, cy).
InEraseRange(action, mode, cx, cy, x, y) ==
  CASE action = "J" /\ mode = 0 -> (y = cy /\ x >= cx) \/ y > cy
    [] action = "J" /\ mode = 1 -> y < cy \/ (y = cy /\ x <= cx)
    [] action = "K" /\ mode = 0 -> y = cy /\ x >= cx
    [] action = "K" /\ mode = 1 -> y = cy /\ x <= cx
    [] action = "K" /\ mode = 2 -> y = cy
    [] OTHER -> FALSE

RangeErases == {<<"J", 0>>, <<"J", 1>>, <<"K", 0>>, <<"K", 1>>, <<"K", 2>>}

\* C6: erase-in-display 0 and 1 and erase-in-line 0, 1, 2 set every cell of
\* their range to (space, current_style), mark every row of the range dirty,
\* and leave every cell outside the range unchanged.
C6_EraseWritesCurrentStyle ==
  panic = NoPanic =>
    \A e \in RangeErases :
      LET post == Dispatch(Model, Erase(e[1], e[2]))
      IN \A y \in 0..(Rows - 1) : \A x \in 0..(Cols - 1) :
           IF InEraseRange(e[1], e[2], cursor_x, cursor_y, x, y)
           THEN /\ post.lines[y + 1].chars[x + 1] = " "
                /\ post.lines[y + 1].attrs[x + 1] = current_attrs
                /\ post.lines[y + 1].dirty
           ELSE /\ post.lines[y + 1].chars[x + 1] = lines[y + 1].chars[x + 1]
                /\ post.lines[y + 1].attrs[x + 1] = lines[y + 1].attrs[x + 1]

\* The rows an erase may touch.
InEraseRows(action, mode, cy, y) ==
  CASE action = "K" -> y = cy
    [] action = "J" /\ mode = 0 -> y >= cy
    [] action = "J" /\ mode = 1 -> y <= cy
    [] OTHER -> FALSE

FramedErases == {<<"K", n>> : n \in EraseModes} \cup {<<"J", 0>>, <<"J", 1>>}

\* C7: erase-in-line of any mode and erase-in-display 0 and 1 leave the
\* cursor, current_style, the scrollback and every row outside the erased
\* ones unchanged; CSI 2K blanks the cursor row and the cursor stays, as at
\* (3, 0) after three characters.
C7_EraseKeepsCursorAndOtherRows ==
  panic = NoPanic =>
    \A e \in FramedErases :
      LET post == Dispatch(Model, Erase(e[1], e[2]))
      IN /\ post.cursor_x = cursor_x
         /\ post.cursor_y = cursor_y
         /\ post.current_attrs = current_attrs
         /\ post.scrollback = scrollback
         /\ \A y \in 0..(Rows - 1) :
              ~InEraseRows(e[1], e[2], cursor_y, y) => post.lines[y + 1] = lines[y + 1]
         /\ e = <<"K", 2>> => IsBlank(post.lines[cursor_y + 1])

C7_Witness ==
  /\ last.op = "csi_dispatch" /\ last.key = <<"K", 2>>
  /\ panic = NoPanic
  /\ cursor_x = 3 /\ cursor_y = 0
  /\ IsBlank(lines[1])

SameScreen(p, q) ==
  /\ p.lines = q.lines
  /\ p.scrollback = q.scrollback
  /\ p.cursor_x = q.cursor_x
  /\ p.cursor_y = q.cursor_y
  /\ p.full_repaint = q.full_repaint

\* C8: with the cursor past the last column, printing a character gives the
\* same grid, scrollback, cursor and full_repaint as CR, LF and then the
\* character, on every row, the bottom one included.
C8_WrapIsCarriageReturnLineFeed ==
  (panic = NoPanic /\ cursor_x = Cols) =>
    \A c \in Chars :
      LET wrapped == print(Model, c)
      IN /\ SameScreen(wrapped, print(execute(execute(Model, CR), LF), c))
         /\ cursor_y = Rows - 1 =>
              /\ \A y \in 1..(Rows - 1) : wrapped.lines[y] = lines[y + 1]
              /\ wrapped.scrollback # <<>>
              /\ wrapped.scrollback[Len(wrapped.scrollback)] = lines[1]

C8_Witness ==
  /\ last.op = "print"
  /\ cursor_x = 1 /\ cursor_y = Rows - 1
  /\ lines[Rows].chars[1] # " "
  /\ IsFull(lines[Rows - 1])
  /\ Len(scrollback) = 1 /\ Len(evicted) = 1

\* C9: the scrollback holds the last min(N, max_scrollback) of the N rows
\* that left the top of the grid, cells intact and in the order they left;
\* the rows dropped are the oldest.
C9_ScrollFidelity ==
  LET n == Len(evicted)
      k == Min(n, MaxScrollback)
  IN /\ Len(scrollback) = k
     /\ \A j \in 1..k : Cells(scrollback[j]) = Cells(evicted[n - k + j])

C9_Witness ==
  /\ last.op = "execute" /\ last.key = <<"", LF>>
  /\ Len(evicted) > MaxScrollback
  /\ ~IsBlank(evicted[1])
  /\ Len(scrollback) = MaxScrollback

\* C10: cols*rows characters printed into the new model fill the grid
\* without scrolling and leave the cursor past the last column of the last
\* row; the next character scrolls once: the scrollback is the one row of the
\* first cols characters, the last row has the character at column 0 and
\* blanks after it, and the cursor is at (1, rows-1).
C10_OverflowDeferred ==
  printed.only =>
    LET n == Len(printed.chars)
    IN /\ n = Cols * Rows =>
            /\ scrollback = <<>>
            /\ \A y \in 0..(Rows - 1) :
                 lines[y + 1].chars = [x \in 1..Cols |-> printed.chars[y * Cols + x]]
            /\ cursor_x = Cols /\ cursor_y = Rows - 1
       /\ n = Cols * Rows + 1 =>
            /\ Len(scrollback) = 1
            /\ scrollback[1].chars = [x \in 1..Cols |-> printed.chars[x]]
            /\ lines[Rows].chars =
                 [x \in 1..Cols |-> IF x = 1 THEN printed.chars[n] ELSE " "]
            /\ cursor_x = 1 /\ cursor_y = Rows - 1

C10_Witness ==
  /\ printed.only
  /\ Len(printed.chars) = Cols * Rows + 1
  /\ \A j \in 1..Len(printed.chars) : printed.chars[j] = "a"
  /\ Len(scrollback) = 1
  /\ cursor_x = 1 /\ cursor_y = Rows - 1

\* Whether print scrolls the grid in m, the cell (x, y) it writes, and the
\* row of m found at grid row y afterwards (a new row below a scrolled grid).
PrintScrolls(m) == m.cursor_x >= Cols /\ m.cursor_y + 1 >= Rows

PrintTarget(m) ==
  IF m.cursor_x >= Cols
  THEN <<0, Min(m.cursor_y + 1, Rows - 1)>>
  ELSE <<m.cursor_x, m.cursor_y>>

RowBeforePrint(m, y) ==
  IF PrintScrolls(m)
  THEN IF y + 1 < Rows THEN m.lines[y + 2] ELSE ScreenLine_new(Cols)
  ELSE m.lines[y + 1]

\* w is m after one print: every cell but the written one is as before, and
\* a row scrolled out is the newest row of the scrollback, behind the rows
\* the scrollback had (less the oldest when it was full).
PrintKeepsOtherCells(m, w) ==
  /\ \A y \in 0..(Rows - 1) : \A x \in 0..(Cols - 1) :
       <<x, y>> # PrintTarget(m) =>
         /\ w.lines[y + 1].chars[x + 1] = RowBeforePrint(m, y).chars[x + 1]
         /\ w.lines[y + 1].attrs[x + 1] = RowBeforePrint(m, y).attrs[x + 1]
  /\ IF PrintScrolls(m)
     THEN LET all == Append(m.scrollback, m.lines[1])
              k == Min(Len(all), MaxScrollback)
          IN /\ Len(w.scrollback) = k
             /\ \A j \in 1..k :
                  Cells(w.scrollback[j]) = Cells(all[Len(all) - k + j])
     ELSE w.scrollback = m.scrollback

\* C11: a printed character changes no cell but the one it is written into:
\* every other cell keeps its character and style (moving up one row with
\* the grid when the print scrolls), and the row scrolled out is found
\* unchanged in the scrollback.
C11_PrintKeepsOtherCells ==
  panic = NoPanic =>
    \A c \in FillChars :
      LET w == print(Model, c)
          t == PrintTarget(Model)
      IN /\ PrintKeepsOtherCells(Model, w)
         /\ w.lines[t[2] + 1].chars[t[1] + 1] = c
         /\ w.panic = NoPanic

C11_Witness ==
  /\ last.op = "print"
  /\ ~printed.only
  /\ Len(evicted) = 1
  /\ Len(scrollback) = 1 /\ IsFull(scrollback[1])
  /\ lines[Rows].chars[1] # " " /\ lines[Rows].chars[2] = " "
  /\ cursor_x = 1

\* The model after ESC [ and a final byte, fed to a parser in its ground
\* state: the sequence has no parameter, and csi_dispatch receives the one
\* parameter 0.
AfterBareCsi(final) ==
  parse_bytes([model |-> Model, parser |-> Parser_new], <<27, 91, final>>).model

\* C12: CSI A, B, C and D received without a parameter (final bytes 65 to
\* 68) move the cursor by one in their direction, clamped at the edge of
\* the grid.
C12_NoParameterMovesByOne ==
  panic = NoPanic =>
    /\ AfterBareCsi(65).cursor_y = SaturatingSub(cursor_y, 1)
    /\ AfterBareCsi(66).cursor_y = Min(cursor_y + 1, Rows - 1)
    /\ AfterBareCsi(67).cursor_x = Min(cursor_x + 1, Cols - 1)
    /\ AfterBareCsi(68).cursor_x = SaturatingSub(cursor_x, 1)

\* Parameter values of a cursor move: 0, small ones on either side of the
\* grid's size, and the largest u16.
ParamValues == {0, 1, 2, 3, 4, 65535}

\* post is the current state with the cursor at column x of row y.
MovedTo(post, x, y) == post = [Model EXCEPT !.cursor_x = x, !.cursor_y = y]

\* C13: cursor moves clamp at the edges of the grid for every parameter:
\* CSI n A and CSI n D stop at 0, CSI n B at rows-1, CSI n C at cols-1, and
\* CSI r;c H (or f) goes to (min(max(r,1)-1, rows-1), min(max(c,1)-1,
\* cols-1)); the other coordinate, the grid and the scrollback stay.
C13_CursorMovesClamp ==
  panic = NoPanic =>
    /\ \A n \in ParamValues :
         /\ MovedTo(Dispatch(Model, Csi(<<n>>, "A")),
                    cursor_x, Max(cursor_y - n, 0))
         /\ MovedTo(Dispatch(Model, Csi(<<n>>, "B")),
                    cursor_x, Min(cursor_y + n, Rows - 1))
         /\ MovedTo(Dispatch(Model, Csi(<<n>>, "C")),
                    Min(cursor_x + n, Cols - 1), cursor_y)
         /\ MovedTo(Dispatch(Model, Csi(<<n>>, "D")),
                    Max(cursor_x - n, 0), cursor_y)
    /\ \A r \in ParamValues : \A c \in ParamValues :
         /\ MovedTo(Dispatch(Model, Csi(<<r, c>>, "H")),
                    Min(Max(c, 1) - 1, Cols - 1), Min(Max(r, 1) - 1, Rows - 1))
         /\ r <= c =>
              MovedTo(Dispatch(Model, Csi(<<c, r>>, "f")),
                      Min(Max(r, 1) - 1, Cols - 1), Min(Max(c, 1) - 1, Rows - 1))

C13_Witness ==
  /\ last.op = "csi_dispatch" /\ last.key = <<"H", 0>>
  /\ cursor_x = Cols - 1 /\ cursor_y = Rows - 1
  /\ ~IsBlank(lines[1])
  /\ scrollback # <<>>

\* SGR parameter values on both sides of every range of the table.
SgrSamples ==
  {0, 1, 2, 4, 7, 8, 21, 22, 24, 27, 29, 30, 33, 37, 38, 39, 40, 44, 47, 48,
   49, 50, 89, 90, 93, 97, 98, 99, 100, 104, 107, 108, 255, 256, 65535}

\* What may precede the final 0 of a resetting sequence.
SgrPrefixes ==
  {<<>>} \cup {<<p>> : p \in SgrSamples} \cup {<<1, 31>>, <<0, 4>>, <<7, 42>>}

\* C14: an SGR sequence ending in the parameter 0 leaves current_style at
\* the default whatever the style was and whatever precedes the 0; a
\* character printed next carries the default style, and the cells already
\* written keep theirs.
C14_SgrResetRestoresDefault ==
  panic = NoPanic =>
    \A pre \in SgrPrefixes :
      LET post == Dispatch(Model, Csi(Append(pre, 0), "m"))
      IN /\ post.current_attrs = Attrs_default
         /\ post.lines = lines
         /\ \A c \in Chars :
              LET w == print(post, c)
                  t == PrintTarget(post)
              IN /\ w.lines[t[2] + 1].chars[t[1] + 1] = c
                 /\ w.lines[t[2] + 1].attrs[t[1] + 1] = Attrs_default
                 /\ PrintKeepsOtherCells(post, w)

C14_Witness ==
  /\ last.op = "print"
  /\ lines[1].chars[1] # " " /\ lines[1].attrs[1].fg = Indexed(1)
  /\ lines[1].chars[2] # " " /\ lines[1].attrs[2] = Attrs_default
  /\ current_attrs = Attrs_default

\* The table of SGR parameters, field by field: the value of each field of
\* the style after parameter p.
TableBold(a, p) ==
  IF p = 1 THEN TRUE ELSE IF p \in {0, 22} THEN FALSE ELSE a.bold

TableUnderline(a, p) ==
  IF p = 4 THEN TRUE ELSE IF p \in {0, 24} THEN FALSE ELSE a.underline

TableReverse(a, p) ==
  IF p = 7 THEN TRUE ELSE IF p \in {0, 27} THEN FALSE ELSE a.reverse

TableFg(a, p) ==
  IF p \in 30..37 THEN Indexed(p - 30)
  ELSE IF p \in 90..97 THEN Indexed(p - 90 + 8)
  ELSE IF p \in {0, 39} THEN DefaultFg
  ELSE a.fg

TableBg(a, p) ==
  IF p \in 40..47 THEN Indexed(p - 40)
  ELSE IF p \in 100..107 THEN Indexed(p - 100 + 8)
  ELSE IF p \in {0, 49} THEN DefaultBg
  ELSE a.bg

TableEntry(a, p) ==
  [fg |-> TableFg(a, p), bg |-> TableBg(a, p), bold |-> TableBold(a, p),
   underline |-> TableUnderline(a, p), reverse |-> TableReverse(a, p)]

\* The parameters the table lists.
TableListed ==
  {0, 1, 4, 7, 22, 24, 27, 39, 49} \cup (30..37) \cup (40..47)
    \cup (90..97) \cup (100..107)

\* C15: an SGR sequence applies its parameters in order, each by the table
\* (0 reset, 1/22 bold, 4/24 underline, 7/27 reverse, 30..37 and 90..97
\* foreground, 40..47 and 100..107 background, 39/49 default colours); a
\* parameter the table does not list changes nothing; and the sequence
\* changes current_style only.
C15_SgrFollowsTable ==
  panic = NoPanic =>
    /\ \A p \in SgrSamples :
         LET post == Dispatch(Model, Csi(<<p>>, "m"))
         IN /\ post.current_attrs = TableEntry(current_attrs, p)
            /\ p \notin TableListed => post.current_attrs = current_attrs
            /\ [post EXCEPT !.current_attrs = current_attrs] = Model
    /\ \A p \in SgrSamples : \A q \in {0, 31} :
         Dispatch(Model, Csi(<<p, q>>, "m")).current_attrs =
           TableEntry(TableEntry(current_attrs, p), q)
    /\ \A p \in SgrFeed : \A q \in {1, 39} :
         Dispatch(Model, Csi(<<q, p, 22>>, "m")).current_attrs =
           TableEntry(TableEntry(TableEntry(current_attrs, q), p), 22)

C15_Witness ==
  /\ last.op = "csi_dispatch" /\ last.key = <<"m", 0>>
  /\ current_attrs.fg = Indexed(1) /\ current_attrs.bg = Indexed(2)
  /\ current_attrs.reverse /\ ~current_attrs.bold
  /\ ~IsBlank(lines[1])

\* CSI sequences csi_dispatch must drop: every sequence fed, flagged ignore
\* or carrying an intermediate byte, and sequences with a final byte the
\* match does not list.
FlaggedCsi ==
  {[Csi(ps, a) EXCEPT !.ignore = f[1], !.intermediates = f[2]] :
     ps \in {<<1>>, <<2, 2>>},
     a \in {"A", "B", "C", "D", "H", "f", "J", "K", "m"},
     f \in {<<TRUE, <<>>>>, <<FALSE, <<"?">>>>, <<TRUE, <<" ", "q">>>>}}

UnlistedCsi ==
  {Csi(ps, a) : ps \in {<<0>>, <<2, 1>>},
                a \in {"@", "E", "F", "G", "L", "M", "P", "S", "T", "X",
                       "d", "h", "l", "n", "r", "s", "u", "z", "a", "j", "k"}}

\* C16: a CSI sequence flagged ignore or carrying intermediate bytes, a CSI
\* sequence with an unlisted final byte, and every OSC, ESC and DCS callback
\* leave the grid, the dirty flags, the cursor, current_style, the
\* scrollback and full_repaint as they were.
C16_DroppedSequencesChangeNothing ==
  panic = NoPanic =>
    /\ \A i \in FlaggedCsi \cup UnlistedCsi : Dispatch(Model, i) = Model
    /\ \A s \in StubCalls : StubCall(Model, s) = Model

C16_Witness ==
  /\ last.op = "csi_dispatch" /\ last.key = <<"dropped", 0>>
  /\ ~full_repaint
  /\ ~IsBlank(lines[1])
  /\ cursor_x = 1
  /\ current_attrs.underline

\* The viewport never reaches above the oldest scrollback row.
ViewportBounds == 0 <= viewport_offset /\ viewport_offset <= Len(scrollback)

\* C17: 0 <= viewport_offset <= scrollback.len in every state;
\* scroll_view_up(n) sets viewport_offset to min(viewport_offset + n,
\* scrollback.len) and scroll_view_down(n) to max(viewport_offset - n, 0),
\* both setting full_repaint; reset_view zeroes it and sets full_repaint
\* only when viewport_offset was not 0.
C17_ViewportWithinScrollback ==
  /\ ViewportBounds
  /\ panic = NoPanic =>
       /\ \A n \in ScrollAmounts : \A checks \in OverflowChecks :
            LET up == scroll_view_up(Model, n, checks)
            IN /\ up.panic = NoPanic
               /\ up.viewport_offset =
                    (IF n >= Len(scrollback) - viewport_offset
                     THEN Len(scrollback) ELSE viewport_offset + n)
               /\ up.full_repaint
       /\ \A n \in ScrollAmounts :
            LET down == scroll_view_down(Model, n)
            IN /\ down.viewport_offset =
                    (IF n >= viewport_offset THEN 0 ELSE viewport_offset - n)
               /\ down.full_repaint
       /\ reset_view(Model).viewport_offset = 0
       /\ reset_view(Model).full_repaint = (full_repaint \/ viewport_offset # 0)

\* C18: an error of the display adapter on any draw call of a paint cycle
\* (clear, background fill, glyph, underline fill, cursor fill) is swallowed
\* there: the paint cycle completes, so update_display never aborts.
C18_DisplayErrorsSwallowed ==
  last.op = "update_display" => panic = NoPanic

\* The tasks that hold the model: past lock() and not yet past the drop of
\* the guard.
Holding == {t \in Tasks : pc[t] \in {"paint", "call"}}

\* C19: at most one task holds the model at any time, and the painter, when
\* it holds it, finds the model as the last completed call left it: no
\* producer is inside a call.
C19_MutualExclusion ==
  /\ Cardinality(Holding) <= 1
  /\ Holding # {} => locked
  /\ (pc["painter"] = "paint" /\ panic = NoPanic) =>
       /\ Model = committed
       /\ \A p \in Producers : pc[p] # "call"

C19_Witness ==
  /\ pc["painter"] = "paint"
  /\ pc["shell"] = "lock" /\ pc["serial"] = "done"
  /\ ~IsBlank(lines[1])
  /\ parser = Parser_new

\* One call of a producer and a sequence of calls, run with nothing between
\* their steps.
RunCall(scr, call) ==
  IF call.kind = "clear" THEN Screen_clear(scr) ELSE parse_bytes(scr, call.bytes)

RECURSIVE RunCalls(_, _)
RunCalls(scr, cs) ==
  IF cs = <<>> THEN scr ELSE RunCalls(RunCall(scr, Head(cs)), Tail(cs))

\* The orders in which the calls of a and of b can follow one another, each
\* keeping its own order.
RECURSIVE Merges(_, _)
Merges(a, b) ==
  IF a = <<>> THEN {b}
  ELSE IF b = <<>> THEN {a}
  ELSE {<<Head(a)>> \o r : r \in Merges(Tail(a), b)}
         \cup {<<Head(b)>> \o r : r \in Merges(a, Tail(b))}

SerialOrders == Merges(programs["shell"], programs["serial"])

\* What the producers write of a model: cells, cursor, style and viewport
\* (the painter clears dirty flags and full_repaint between their calls).
Content(m) ==
  [lines |-> [y \in 1..Len(m.lines) |-> Cells(m.lines[y])],
   scrollback |-> [k \in 1..Len(m.scrollback) |-> Cells(m.scrollback[k])],
   cursor_x |-> m.cursor_x, cursor_y |-> m.cursor_y,
   current_attrs |-> m.current_attrs,
   viewport_offset |-> m.viewport_offset]

AllDone == \A p \in Producers : pc[p] = "done"

\* C20: the bytes of one producer are applied in the order written, and
\* when every producer has made its calls, each a write of complete
\* sequences under the mutex, the model is what the calls give when made
\* one after another in some order that keeps each producer's own; the
\* parser is back in its ground state.
C20_WritesAreSerialized ==
  (AllDone /\ panic = NoPanic) =>
    /\ \E order \in SerialOrders :
         Content(Model) = Content(RunCalls(Screen_new, order).model)
    /\ parser = Parser_new

C20_Witness ==
  /\ AllDone /\ panic = NoPanic
  /\ Len(programs["shell"]) = 2 /\ Len(programs["serial"]) = 2
  /\ \E order \in SerialOrders :
       Content(Model) # Content(RunCalls(Screen_new, order).model)
  /\ ~IsBlank(lines[1])
  /\ ~full_repaint

\* The row of the model shown at screen row y (0-based).
Displayed(m, y) == SourceLine(m, SourceRow(m, y))

\* Nothing is left to paint: full_repaint is false and no displayed row is
\* dirty.
Clean ==
  /\ ~full_repaint
  /\ \A y \in 0..(Rows - 1) : ~Displayed(Model, y).dirty

\* A paint cycle of the current state is complete: nothing is left to paint
\* and the panel shows the displayed rows.
Shown ==
  /\ Clean
  /\ \A y \in 0..(Rows - 1) : display[y + 1] = Cells(Displayed(Model, y))

\* C21: the painter does not hold the mutex while it awaits the ticker; a
\* task that waits for the mutex gets it; whenever the panel does not show
\* the current state, as after a mutation by a producer, a complete paint
\* cycle of the current state follows; and once the producers have made
\* their calls, a state is reached where full_repaint is false and no
\* displayed row is dirty.
C21_PainterProgress ==
  /\ [](pc["painter"] = "tick" => "painter" \notin Holding)
  /\ [](pc["painter"] = "tick" /\ locked => \E p \in Producers : pc[p] = "call")
  /\ \A t \in Tasks : (pc[t] = "lock") ~> (t \in Holding)
  /\ (~Shown) ~> Shown
  /\ AllDone ~> Clean

\* The screen rows, 0-based.
ScreenRows == 0..(Rows - 1)

\* C22: a paint cycle that completes draws every screen row when
\* full_repaint is set, and otherwise exactly the screen rows whose
\* displayed row is dirty, leaving the others on the panel as they were; a
\* drawn row shows the cells of its displayed row; after the cycle
\* full_repaint is false and no displayed row is dirty.
C22_RepaintsFollowFlags ==
  panic = NoPanic =>
    \A fault \in DisplayFaults :
      LET s == update_display(Model, display, fault)
      IN s.model.panic = NoPanic =>
           /\ s.painted = IF full_repaint THEN ScreenRows
                          ELSE {y \in ScreenRows : Displayed(Model, y).dirty}
           /\ \A y \in s.painted :
                s.display[y + 1] = Cells(Displayed(Model, y))
           /\ \A y \in ScreenRows \ s.painted :
                s.display[y + 1] = display[y + 1]
           /\ ~s.model.full_repaint
           /\ \A y \in ScreenRows : ~Displayed(s.model, y).dirty

\* A cycle has drawn one row of a panel that showed both, and left the
\* other: the first row has a character the panel did not show before.
C22_Witness ==
  /\ last.op = "update_display" /\ panic = NoPanic
  /\ Clean
  /\ ~IsBlank(lines[1]) /\ IsBlank(lines[2])
  /\ display[1] = Cells(lines[1])
  /\ display[2] = Cells(lines[2])
  /\ steps >= 3

\* The cell at column x (1-based) of screen row y differs, in character or
\* style, from the cell the panel shows there.
Stale(y, x) ==
  \/ Displayed(Model, y).chars[x] # display[y + 1].chars[x]
  \/ Displayed(Model, y).attrs[x] # display[y + 1].attrs[x]

\* C23: every displayed cell that differs, in character or style, from the
\* cell the last paint of its screen row drew there lies in a row whose
\* dirty flag is set, or full_repaint is set. The cells compared are those
\* of the rows as drawn, before the cursor block is filled over one of
\* them, so the cells under the block are compared too. The states are
\* those of the running program: a panic ends it where it stands.
C23_DirtyTrackingLosesNoChange ==
  panic = NoPanic =>
    \A y \in ScreenRows : \A x \in 1..Cols :
      Stale(y, x) => Displayed(Model, y).dirty \/ full_repaint

\* After a paint cycle a producer has changed one displayed row and left
\* the other: the changed row is dirty and the other is clean and as shown.
C23_Witness ==
  /\ panic = NoPanic /\ ~full_repaint
  /\ last.op \in Producer
  /\ \E y \in ScreenRows : \E x \in 1..Cols :
       /\ Stale(y, x)
       /\ display[y + 1].chars[x] # Undrawn
       /\ Displayed(Model, y).dirty
  /\ \E y \in ScreenRows :
       /\ ~Displayed(Model, y).dirty
       /\ display[y + 1] = Cells(Displayed(Model, y))

\* The logical row shown at screen row y, counted over the scrollback
\* followed by the live grid (0-based).
LogicalIndex(m, y) == Len(m.scrollback) - m.viewport_offset + y

\* C24: while the view is scrolled back, a paint cycle draws screen row y
\* from logical row scrollback.len - viewport_offset + y: a scrollback row
\* when that index is below scrollback.len, and else the live grid row
\* (index - scrollback.len); the index lies in 0..scrollback.len + rows - 1
\* and the row exists. With viewport_offset = 0 screen row y is live grid
\* row y. A cycle draws the cells of these rows at the screen rows it
\* paints.
C24_ViewportMapping ==
  panic = NoPanic =>
    \A y \in ScreenRows :
      LET idx == LogicalIndex(Model, y)
          src == SourceRow(Model, y)
          row == IF viewport_offset = 0 THEN lines[y + 1]
                 ELSE IF idx < Len(scrollback) THEN scrollback[idx + 1]
                 ELSE lines[idx - Len(scrollback) + 1]
          s == update_display(Model, display, "none")
      IN /\ idx >= 0 /\ idx <= Len(scrollback) + Rows - 1
         /\ viewport_offset > 0 =>
              /\ src.sb = (idx < Len(scrollback))
              /\ src.idx = IF src.sb THEN idx ELSE idx - Len(scrollback)
         /\ viewport_offset = 0 => ~src.sb /\ src.idx = y
         /\ SourceInRange(Model, src)
         /\ s.model.panic = NoPanic
         /\ y \in s.painted => s.display[y + 1] = Cells(row)

\* A cycle has drawn a view scrolled back by one row: the top screen row
\* shows a scrollback row with a character and the next the first grid row.
C24_Witness ==
  /\ last.op = "update_display" /\ panic = NoPanic
  /\ viewport_offset = 1 /\ Len(scrollback) >= 1
  /\ ~IsBlank(scrollback[Len(scrollback)])
  /\ display[1] = Cells(scrollback[Len(scrollback)])
  /\ display[2] = Cells(lines[1])
  /\ display[1] # display[2]

\* The dirty flags of the rows of a model, grid and scrollback.
DirtyFlags(m) ==
  [lines |-> [y \in 1..Len(m.lines) |-> m.lines[y].dirty],
   scrollback |-> [k \in 1..Len(m.scrollback) |-> m.scrollback[k].dirty]]

\* C25: a paint cycle, whatever the display does, leaves the cells and
\* styles of every grid and scrollback row, the cursor, current_attrs,
\* viewport_offset and the number of grid and scrollback rows as they were;
\* it sets no dirty flag and does not set full_repaint, and it clears
\* only the dirty flags of rows it drew.
C25_PaintChangesOnlyFlags ==
  panic = NoPanic =>
    \A fault \in DisplayFaults :
      LET s == update_display(Model, display, fault)
          before == DirtyFlags(Model)
          after == DirtyFlags(s.model)
      IN /\ Content(s.model) = Content(Model)
         /\ Len(s.model.lines) = Len(lines)
         /\ Len(s.model.scrollback) = Len(scrollback)
         /\ s.model.full_repaint => full_repaint
         /\ \A y \in 1..Len(lines) : after.lines[y] => before.lines[y]
         /\ \A k \in 1..Len(scrollback) :
              after.scrollback[k] => before.scrollback[k]
         /\ \A k \in 1..Len(scrollback) :
              before.scrollback[k] /\ ~after.scrollback[k] =>
                \E y \in s.painted :
                  SourceRow(Model, y) = [sb |-> TRUE, idx |-> k - 1]

\* A cycle has run on a model with the view scrolled back over a scrollback
\* row with characters, which it drew, and the cursor off the first row.
C25_Witness ==
  /\ last.op = "update_display" /\ panic = NoPanic
  /\ ~full_repaint
  /\ viewport_offset > 0
  /\ \E k \in 1..Len(scrollback) : ~IsBlank(scrollback[k]) /\ ~scrollback[k].dirty
  /\ cursor_y > 0

\* ESC [ 2 J ESC [ H: erase the whole display, then cursor home.
EraseAllThenHome == <<27, 91, 50, 74, 27, 91, 72>>

\* C26: from any state, clear() leaves the model that the callbacks of
\* CSI 2 J followed by CSI H leave, also when the two sequences come as
\* bytes through the parser: a blank grid, the cursor at (0, 0),
\* full_repaint set, and current_attrs, scrollback and viewport_offset as
\* they were.
C26_ClearIsEraseAllThenHome ==
  panic = NoPanic =>
    LET cleared == clear(Model)
        erased == Dispatch(Model, Csi(<<2>>, "J"))
        homed == Dispatch(erased, Csi(<<1, 1>>, "H"))
        parsed == parse_bytes([model |-> Model, parser |-> Parser_new],
                              EraseAllThenHome)
    IN /\ cleared = homed
       /\ cleared = parsed.model
       /\ cleared = Screen_clear([model |-> Model, parser |-> Parser_new]).model
       /\ \A y \in 1..Rows : IsBlank(cleared.lines[y])
       /\ cleared.cursor_x = 0 /\ cleared.cursor_y = 0
       /\ cleared.full_repaint
       /\ cleared.current_attrs = current_attrs
       /\ cleared.scrollback = scrollback
       /\ cleared.viewport_offset = viewport_offset
       /\ cleared.panic = NoPanic

\* clear() has run on a model with a style set and a row with characters
\* in the scrollback, and left both.
C26_Witness ==
  /\ last.op = "clear" /\ panic = NoPanic
  /\ current_attrs # Attrs_default
  /\ \E k \in 1..Len(scrollback) : ~IsBlank(scrollback[k])
  /\ \A y \in 1..Rows : IsBlank(lines[y])
  /\ cursor_x = 0 /\ cursor_y = 0 /\ full_repaint
====
